---- MODULE Spec2Model ----
(***************************************************************************)
(* ActionRegistry (src/src/ActionRegistry.js): a table from key values to  *)
(* lists of action names, with addBindKeyTo, setBindingTo,                 *)
(* getActionsForKey and isBound.                                           *)
(*                                                                         *)
(* JavaScript values are tagged records.  Arrays are objects: a value of   *)
(* kind "array" holds a reference into `heap`, so that two keys bound to   *)
(* the same list object see each other's pushes.                           *)
(***************************************************************************)
EXTENDS Naturals, Sequences, FiniteSets, TLC

VARIABLES
    bindings,   \* this.bindings: key value -> JavaScript value
    heap,       \* the list objects the table refers to: reference -> elements
    call,       \* the last call made on the registry and how it ended
    hist        \* the calls made since construction (kept by SpecSession only)

vars == <<bindings, heap, call, hist>>

-----------------------------------------------------------------------------
(* Bounds of the model. *)

\* Longest list a push may produce.
MaxLen == 3

\* Number of calls of a session (SpecSession).
MaxCalls == 3

-----------------------------------------------------------------------------
(* The universe of inputs. *)

\* Key values, as named by the DOM Key Values vocabulary.
Keys == {"A", "B"}

\* Action names.
ActionNames == {"X", "Y"}

\* One list object per key is enough: a list no key refers to is unreachable.
Refs == 1 .. Cardinality(Keys)

\* The array literals callers pass.
ArgLists == {<<>>, <<"X">>, <<"X", "Y">>}

-----------------------------------------------------------------------------
(* JavaScript values. *)

Undefined == [kind |-> "undefined", str |-> "", ref |-> 0]

Null == [kind |-> "null", str |-> "", ref |-> 0]

Str(s) == [kind |-> "string", str |-> s, ref |-> 0]

ArrayRef(r) == [kind |-> "array", str |-> "", ref |-> r]

Bool(b) == [kind |-> "boolean", str |-> IF b THEN "true" ELSE "false", ref |-> 0]

\* Array.isArray(v), with the empty array taken for a non-array.
IsArrayNonEmpty(v) == v.kind = "array" /\ heap[v.ref] # <<>>

\* Array.isArray(v)
IsArray(v) == v.kind = "array"

\* ToBoolean(v): what `!v`, `v && ...` and `v || ...` test.
Truthy(v) ==
    CASE v.kind = "undefined" -> FALSE
      [] v.kind = "null"      -> FALSE
      [] v.kind = "string"    -> v.str # ""
      [] v.kind = "array"     -> TRUE
      [] v.kind = "boolean"   -> v.str = "true"

-----------------------------------------------------------------------------
(* Arguments of a call: a JavaScript value as the caller holds it.  An     *)
(* array argument carries its elements at the time of the call; ref is the *)
(* list object of the table it is (a caller got it from getActionsForKey   *)
(* or passed it before), or 0 for an array the table does not hold.        *)

NoArg == [kind |-> "undefined", str |-> "", ref |-> 0, elems |-> <<>>]

StrArg(s) == [kind |-> "string", str |-> s, ref |-> 0, elems |-> <<>>]

ArrArg(r, l) == [kind |-> "array", str |-> "", ref |-> r, elems |-> l]

\* The list objects the table refers to.
LiveRefs(b) == {b[k].ref : k \in {x \in Keys : b[x].kind = "array"}}

\* actionOrActionArray of addBindKeyTo: a string or an array of strings.
AddArgs == {StrArg(s) : s \in ActionNames} \cup {ArrArg(0, l) : l \in ArgLists}

\* actionArray of setBindingTo as documented: a new array, or one the table holds.
SetArrayArgs ==
    {ArrArg(0, l) : l \in ArgLists} \cup {ArrArg(r, heap[r]) : r \in LiveRefs(bindings)}

\* actionArray of setBindingTo: nothing validates it, so scalars pass too.
SetArgs == SetArrayArgs \cup {StrArg("Jump"), StrArg("")}

-----------------------------------------------------------------------------
(* The queries, as functions of the state. *)

\* this.bindings[keyValue], without the `|| null`.
getActionsForKeyNoDefault(keyValue) == bindings[keyValue]

\* getActionsForKey: this.bindings[keyValue] || null
getActionsForKey(keyValue) ==
    IF Truthy(bindings[keyValue]) THEN bindings[keyValue] ELSE Null

\* isBound: !!this.getActionsForKey(keyValue)
isBound(keyValue) == Truthy(getActionsForKey(keyValue))

-----------------------------------------------------------------------------
(* Helpers of the mutations. *)

\* A push that drops what the list already holds.
PushReplace(list, arg) ==
    IF arg.kind = "array" THEN arg.elems ELSE <<arg.str>>

\* binding.push(...actionOrActionArray) for an array, binding.push(action) otherwise.
Push(list, arg) ==
    IF arg.kind = "array" THEN list \o arg.elems ELSE Append(list, arg.str)

\* this.bindings = {[keyValue]: value}: the assignment replacing the whole table.
StoreBindingReset(b, keyValue, value) ==
    [k \in Keys |-> IF k = keyValue THEN value ELSE Undefined]

\* The assignment made under every key instead of under keyValue alone.
StoreBindingAll(b, keyValue, value) == [k \in Keys |-> value]

\* this.bindings[keyValue] = this.bindings[keyValue] || value
StoreBindingIfAbsent(b, keyValue, value) ==
    IF Truthy(b[keyValue]) THEN b ELSE [b EXCEPT ![keyValue] = value]

\* this.bindings[keyValue] = value
StoreBinding(b, keyValue, value) == [b EXCEPT ![keyValue] = value]

\* A list no key refers to any more is unreachable from the registry.
Collect(h, b) == [r \in Refs |-> IF r \in LiveRefs(b) THEN h[r] ELSE <<>>]

\* The reference a new list object bound to keyValue gets.
FreshRef(keyValue) ==
    LET free == Refs \ LiveRefs([bindings EXCEPT ![keyValue] = Undefined])
    IN  CHOOSE r \in free : \A q \in free : r <= q

\* actionArray[0] stored in place of actionArray.
StoredValueFirstElement(keyValue, actionArray) ==
    IF actionArray.kind = "array"
    THEN IF actionArray.elems = <<>> THEN Undefined ELSE Str(Head(actionArray.elems))
    ELSE [kind |-> actionArray.kind, str |-> actionArray.str, ref |-> 0]

\* The value this.bindings[keyValue] = actionArray stores: the array object
\* itself (not a copy), or the scalar.
StoredValue(keyValue, actionArray) ==
    IF actionArray.kind = "array"
    THEN ArrayRef(IF actionArray.ref = 0 THEN FreshRef(keyValue) ELSE actionArray.ref)
    ELSE [kind |-> actionArray.kind, str |-> actionArray.str, ref |-> 0]

\* How one call ended.
Ended(op, keyValue, arg, binding, threw, ret) ==
    [op |-> op, keyValue |-> keyValue, arg |-> arg,
     binding |-> binding, threw |-> threw, ret |-> ret]

-----------------------------------------------------------------------------
(* Construction. *)

\* What a caller-supplied mapping may hold under a key (nothing is validated).
ConstructionValues ==
    {Undefined, Null, Str(""), Str("Jump")} \cup {ArrayRef(r) : r \in Refs}

\* constructor(bindings = {}): the mapping is taken as it is.
Init ==
    /\ bindings \in [Keys -> ConstructionValues]
    /\ heap \in [Refs -> ArgLists]
    /\ \A r \in Refs \ LiveRefs(bindings) : heap[r] = <<>>
    /\ call = Ended("constructor", "", NoArg, Undefined, FALSE, Undefined)
    /\ hist = <<>>

\* new ActionRegistry(): the default, empty mapping.
InitEmpty ==
    /\ bindings = [k \in Keys |-> Undefined]
    /\ heap = [r \in Refs |-> <<>>]
    /\ call = Ended("constructor", "", NoArg, Undefined, FALSE, Undefined)
    /\ hist = <<>>

-----------------------------------------------------------------------------
(* The operations. *)

\* addBindKeyTo without the check: whatever is not an array is replaced by
\* a new list, which is stored and pushed to.
AddBindKeyToOverwrite(keyValue, actionOrActionArray) ==
    LET binding == bindings[keyValue]
        r == IF IsArray(binding) THEN binding.ref ELSE FreshRef(keyValue)
        old == IF IsArray(binding) THEN heap[r] ELSE <<>>
    IN  /\ Len(Push(old, actionOrActionArray)) <= MaxLen
        /\ bindings' = [bindings EXCEPT ![keyValue] = ArrayRef(r)]
        /\ heap' = [heap EXCEPT ![r] = Push(old, actionOrActionArray)]
        /\ call' = Ended("addBindKeyTo", keyValue, actionOrActionArray,
                         binding, FALSE, Undefined)

AddBindKeyTo(keyValue, actionOrActionArray) ==
    LET binding == bindings[keyValue] IN
    IF ~Truthy(binding) /\ ~IsArray(binding)
    THEN \* binding = [] rebinds the local only: the push lands in a list
         \* the table never gets.
         /\ UNCHANGED <<bindings, heap>>
         /\ call' = Ended("addBindKeyTo", keyValue, actionOrActionArray,
                          binding, FALSE, Undefined)
    ELSE IF Truthy(binding) /\ ~IsArray(binding)
    THEN \* throw new Error(...)
         /\ UNCHANGED <<bindings, heap>>
         /\ call' = Ended("addBindKeyTo", keyValue, actionOrActionArray,
                          binding, TRUE, Undefined)
    ELSE \* the push lands in the list object the table holds
         /\ Len(Push(heap[binding.ref], actionOrActionArray)) <= MaxLen
         /\ heap' = [heap EXCEPT ![binding.ref] = Push(@, actionOrActionArray)]
         /\ UNCHANGED bindings
         /\ call' = Ended("addBindKeyTo", keyValue, actionOrActionArray,
                          binding, FALSE, Undefined)

SetBindingTo(keyValue, actionArray) ==
    LET value == StoredValue(keyValue, actionArray)
        fresh == value.kind = "array" /\ actionArray.ref = 0
        b     == StoreBinding(bindings, keyValue, value)
        h     == IF fresh THEN [heap EXCEPT ![value.ref] = actionArray.elems] ELSE heap
    IN  /\ bindings' = b
        /\ heap' = Collect(h, b)
        /\ call' = Ended("setBindingTo", keyValue, actionArray,
                         Undefined, FALSE, Undefined)

CallGetActionsForKey(keyValue) ==
    /\ UNCHANGED <<bindings, heap>>
    /\ call' = Ended("getActionsForKey", keyValue, NoArg,
                     Undefined, FALSE, getActionsForKey(keyValue))

CallIsBound(keyValue) ==
    /\ UNCHANGED <<bindings, heap>>
    /\ call' = Ended("isBound", keyValue, NoArg,
                     Undefined, FALSE, Bool(isBound(keyValue)))

-----------------------------------------------------------------------------
(* Spec: any registry, any calls. *)

Next ==
    \/ \E k \in Keys, a \in AddArgs : AddBindKeyTo(k, a) /\ UNCHANGED hist
    \/ \E k \in Keys, a \in SetArgs : SetBindingTo(k, a) /\ UNCHANGED hist
    \/ \E k \in Keys : CallGetActionsForKey(k) /\ UNCHANGED hist
    \/ \E k \in Keys : CallIsBound(k) /\ UNCHANGED hist

Spec == Init /\ [][Next]_vars

-----------------------------------------------------------------------------
(* SpecSession: a registry constructed empty, and the first MaxCalls calls *)
(* made on it, each logged in hist.                                        *)

Logged ==
    /\ Len(hist) < MaxCalls
    /\ hist' = Append(hist, [op |-> call'.op, keyValue |-> call'.keyValue,
                             arg |-> call'.arg])

NextSession ==
    \/ \E k \in Keys, a \in AddArgs : AddBindKeyTo(k, a) /\ Logged
    \/ \E k \in Keys, a \in SetArgs : SetBindingTo(k, a) /\ Logged
    \/ \E k \in Keys : CallGetActionsForKey(k) /\ Logged
    \/ \E k \in Keys : CallIsBound(k) /\ Logged

SpecSession == InitEmpty /\ [][NextSession]_vars

-----------------------------------------------------------------------------
(* SpecWellFormed: a registry constructed empty or from lists only, and    *)
(* calls whose arguments have the documented types.                        *)

InitWellFormed ==
    /\ Init
    /\ \A k \in Keys : bindings[k].kind \in {"undefined", "array"}

NextWellFormed ==
    \/ \E k \in Keys, a \in AddArgs : AddBindKeyTo(k, a) /\ UNCHANGED hist
    \/ \E k \in Keys, a \in SetArrayArgs : SetBindingTo(k, a) /\ UNCHANGED hist
    \/ \E k \in Keys : CallGetActionsForKey(k) /\ UNCHANGED hist
    \/ \E k \in Keys : CallIsBound(k) /\ UNCHANGED hist

SpecWellFormed == InitWellFormed /\ [][NextWellFormed]_vars

-----------------------------------------------------------------------------
(* SpecOtherKeys: one key is left out of the construction mapping and is   *)
(* never the target of a mutation; everything else is as in Spec.          *)

NeverBound == "B"

InitOtherKeys ==
    /\ Init
    /\ bindings[NeverBound] = Undefined

NextOtherKeys ==
    \/ \E k \in Keys \ {NeverBound}, a \in AddArgs : AddBindKeyTo(k, a) /\ UNCHANGED hist
    \/ \E k \in Keys \ {NeverBound}, a \in SetArgs : SetBindingTo(k, a) /\ UNCHANGED hist
    \/ \E k \in Keys : CallGetActionsForKey(k) /\ UNCHANGED hist
    \/ \E k \in Keys : CallIsBound(k) /\ UNCHANGED hist

SpecOtherKeys == InitOtherKeys /\ [][NextOtherKeys]_vars

-----------------------------------------------------------------------------
(* What the claims speak of. *)

\* The elements of the list a value is, <<>> for a value that is no list.
Elems(v) == IF v.kind = "array" THEN heap[v.ref] ELSE <<>>

\* The action names an argument of addBindKeyTo stands for, in order.
Added(arg) == IF arg.kind = "array" THEN arg.elems ELSE <<arg.str>>

\* getActionsForKey(k) returns a list whose elements are l.
ReturnsList(k, l) ==
    /\ getActionsForKey(k).kind = "array"
    /\ Elems(getActionsForKey(k)) = l

\* The entry of hist for a call.
LogEntry(op, k, arg) == [op |-> op, keyValue |-> k, arg |-> arg]

\* The concatenation of what the calls hist[i], ..., hist[Len(hist)] added.
RECURSIVE AddedFrom(_)
AddedFrom(i) ==
    IF i > Len(hist) THEN <<>> ELSE Added(hist[i].arg) \o AddedFrom(i + 1)

\* No two keys are bound to the same list object.
NoSharedList ==
    \A j, k \in Keys :
        (j # k /\ bindings[j].kind = "array" /\ bindings[k].kind = "array")
            => bindings[j].ref # bindings[k].ref

-----------------------------------------------------------------------------
(* C1: after addBindKeyTo(k, a) on a key k that has no binding,            *)
(* getActionsForKey(k) returns the added actions: ["X"] for the action     *)
(* "X", ["X","Y"] for the sequence ["X","Y"].                              *)
C1_AddToUnboundKeyIsStored ==
    (call.op = "addBindKeyTo" /\ call.binding.kind = "undefined")
        => ReturnsList(call.keyValue, Added(call.arg))

(* C2: after setBindingTo(k, L1) followed by one or more addBindKeyTo(k, a) *)
(* calls, getActionsForKey(k) returns L1 followed by the added actions in   *)
(* call order.  Checked on sessions (SpecSession).                          *)
C2_AddAppendsToSetBinding ==
    \A i \in 1 .. Len(hist) :
        LET k == hist[i].keyValue IN
        ( /\ i < Len(hist)
          /\ hist[i].op = "setBindingTo"
          /\ hist[i].arg.kind = "array"
          /\ \A j \in (i + 1) .. Len(hist) :
                 hist[j].op = "addBindKeyTo" /\ hist[j].keyValue = k )
            => ReturnsList(k, hist[i].arg.elems \o AddedFrom(i + 1))

\* C2 happens: a non-empty list was set, then a string and a sequence added.
C2_Witness ==
    /\ Len(hist) = 3
    /\ hist[1] = LogEntry("setBindingTo", "A", ArrArg(0, <<"X">>))
    /\ hist[2] = LogEntry("addBindKeyTo", "A", StrArg("Y"))
    /\ hist[3] = LogEntry("addBindKeyTo", "A", ArrArg(0, <<"X">>))
    /\ ReturnsList("A", <<"X", "Y", "X">>)

(* C3: after setBindingTo(k, L) with a sequence L, whatever k was bound to  *)
(* before, getActionsForKey(k) returns exactly L.                           *)
C3_SetThenGetReturnsList ==
    (call.op = "setBindingTo" /\ call.arg.kind = "array")
        => ReturnsList(call.keyValue, call.arg.elems)

\* C3 happens: a two-element list was set, and it is what the query returns.
C3_Witness ==
    /\ call.op = "setBindingTo"
    /\ call.arg.elems = <<"X", "Y">>
    /\ ReturnsList(call.keyValue, <<"X", "Y">>)

(* C4 as stated: whenever the value stored under k is present and is not a  *)
(* sequence, addBindKeyTo(k, a) ends in the error and changes nothing.      *)
C4_NonSequenceAlwaysThrows ==
    [][ (call'.op = "addBindKeyTo"
            /\ bindings[call'.keyValue].kind \in {"string", "null"})
          => (call'.threw /\ bindings' = bindings /\ heap' = heap) ]_vars

(* C4 as amended: whenever the value stored under k is a non-empty string   *)
(* (a truthy value that is not a sequence), addBindKeyTo(k, a) ends in the  *)
(* error and changes nothing in the table.                                  *)
C4_TruthyNonSequenceThrows ==
    [][ (call'.op = "addBindKeyTo"
            /\ bindings[call'.keyValue].kind = "string"
            /\ bindings[call'.keyValue].str # "")
          => (call'.threw /\ bindings' = bindings /\ heap' = heap) ]_vars

\* C4 happens: addBindKeyTo threw on a key bound to the scalar "Jump".
C4_Witness ==
    /\ call.op = "addBindKeyTo"
    /\ call.binding = Str("Jump")
    /\ call.threw
    /\ bindings[call.keyValue] = Str("Jump")

(* C5: on a registry constructed empty, addBindKeyTo(k, "Z") twice leaves   *)
(* getActionsForKey(k) equal to ["Z","Z"].  Checked on sessions.            *)
C5_AddTwiceKeepsDuplicates ==
    \A k \in Keys, z \in ActionNames :
        hist = <<LogEntry("addBindKeyTo", k, StrArg(z)),
                 LogEntry("addBindKeyTo", k, StrArg(z))>>
            => ReturnsList(k, <<z, z>>)

(* C6: a key that is not in the construction mapping and is never the       *)
(* target of a mutation stays unbound whatever is done to the other keys:   *)
(* getActionsForKey returns null and isBound returns false (SpecOtherKeys). *)
C6_NeverBoundKeyIsUnbound ==
    /\ getActionsForKey(NeverBound) = Null
    /\ isBound(NeverBound) = FALSE
    /\ (call.op = "getActionsForKey" /\ call.keyValue = NeverBound)
           => call.ret = Null
    /\ (call.op = "isBound" /\ call.keyValue = NeverBound)
           => call.ret = Bool(FALSE)

\* C6 happens: another key holds a list and isBound was asked of the
\* never-bound key.
C6_Witness ==
    /\ call.op = "isBound"
    /\ call.keyValue = NeverBound
    /\ call.ret = Bool(FALSE)
    /\ \E k \in Keys \ {NeverBound} : Elems(bindings[k]) # <<>>

\* k has a non-null binding that is not empty: a non-empty list or string.
HasNonEmptyBinding(k) ==
    \/ bindings[k].kind = "array" /\ heap[bindings[k].ref] # <<>>
    \/ bindings[k].kind = "string" /\ bindings[k].str # ""

(* C7 as stated: isBound(k) is true exactly when k has a non-empty,         *)
(* non-null binding, and exactly when getActionsForKey(k) is not null; a    *)
(* key set to the empty sequence agrees with both.                          *)
C7_BoundIffNonEmptyBinding ==
    \A k \in Keys :
        /\ isBound(k) <=> HasNonEmptyBinding(k)
        /\ isBound(k) <=> getActionsForKey(k) # Null

(* C7 as amended: isBound(k) is true exactly when getActionsForKey(k)       *)
(* returns a value other than null, which is exactly when the stored value  *)
(* is a list (empty or not) or a non-empty string; a key set to the empty   *)
(* sequence is bound.                                                       *)
C7_BoundIffQueryNotNull ==
    /\ \A k \in Keys :
        /\ isBound(k) <=> getActionsForKey(k) # Null
        /\ isBound(k) <=> \/ bindings[k].kind = "array"
                          \/ bindings[k].kind = "string" /\ bindings[k].str # ""
    /\ call.op = "isBound"
           => call.ret = Bool(getActionsForKey(call.keyValue) # Null)

\* C7 happens: isBound answered true for a key bound to the empty sequence.
C7_Witness ==
    /\ call.op = "isBound"
    /\ bindings[call.keyValue].kind = "array"
    /\ Elems(bindings[call.keyValue]) = <<>>
    /\ call.ret = Bool(TRUE)

C9_OnlyAddThrows ==
    call.threw
        => /\ call.op = "addBindKeyTo"
           /\ call.binding.kind \notin {"undefined", "array"}
           /\ call.binding = bindings[call.keyValue]

\* C9 happens: after a malformed construction a query returned normally.
C9_Witness ==
    /\ call.op = "getActionsForKey"
    /\ ~call.threw
    /\ bindings[call.keyValue] = Str("Jump")
    /\ call.ret = Str("Jump")

(* C10: addBindKeyTo(k, a) and setBindingTo(k, L) leave the binding of      *)
(* every other key as it was when no two keys share a list object, and the  *)
(* queries leave the whole table as it was.                                 *)
C10_Frame ==
    [][ /\ (call'.op \in {"addBindKeyTo", "setBindingTo"} /\ NoSharedList)
            => \A k \in Keys \ {call'.keyValue} :
                   /\ bindings'[k] = bindings[k]
                   /\ bindings[k].kind = "array"
                          => heap'[bindings[k].ref] = heap[bindings[k].ref]
        /\ call'.op \in {"getActionsForKey", "isBound"}
            => (bindings' = bindings /\ heap' = heap) ]_vars

\* C10 happens: a push changed one key's list while the other key holds its
\* own list.
C10_Witness ==
    /\ call.op = "addBindKeyTo"
    /\ call.binding.kind = "array"
    /\ NoSharedList
    /\ Elems(bindings[call.keyValue]) # <<>>
    /\ \E k \in Keys \ {call.keyValue} : Elems(bindings[k]) # <<>>

====
